---- MODULE Spec2Model ----
(***************************************************************************)
(* Model of the two part-catalog tools of monokrome/bl4:                   *)
(*   tools/import_spreadsheet_parts.py  (parse, merge, sort, persist)      *)
(*   tools/cross_reference_parts.py     (load, cross-reference report)     *)
(*                                                                         *)
(* A CSV cell is a sequence of one-character strings, so that strip(),     *)
(* int(), startswith(), split('.') and sorted() are computed character by  *)
(* character.  Join turns such a sequence into a TLA+ string where the     *)
(* code uses the text as a dictionary key or inside an f-string.           *)
(***************************************************************************)
EXTENDS Integers, Sequences, FiniteSets, TLC

VARIABLES
    tool,             \* which script runs: "import", "xref", "merge", "analyze"
    pc,               \* position inside the running script
    rows,             \* the rows csv.reader yields
    i,                \* number of rows the for-loop has consumed
    header,           \* TRUE once `header is not None`
    parts,            \* import: the list `parts`
    skipped,          \* import: the list `skipped`
    stderr,           \* import: what the unknown-category report printed
    log,              \* history: the outcome of each consumed row, in row order
    parts_by_prefix,  \* xref: defaultdict(list) prefix -> records
    our_parts,        \* xref: the loaded parts dump, prefix -> list of names
    new_parts,        \* merge_with_existing: argument new_parts
    existing,         \* merge_with_existing: the existing catalog file, or Absent
    merged,           \* merge_with_existing: its return value
    remerged,         \* the return value of a second merge over `merged`
    output,           \* the document json.dump wrote, or Absent
    order,            \* analyze_patterns: sorted(common)
    k,                \* analyze_patterns: number of prefixes processed
    matched,          \* analyze_patterns: loop locals of the last iteration
    missing,
    extra,
    totals,           \* analyze_patterns: total_matched/total_missing/total_extra
    stdout            \* analyze_patterns: the per-prefix blocks printed

vars == <<tool, pc, rows, i, header, parts, skipped, stderr, log,
          parts_by_prefix, our_parts, new_parts, existing, merged, remerged,
          output, order, k, matched, missing, extra, totals, stdout>>

-----------------------------------------------------------------------------
(* Text *)

Range(s) == { s[n] : n \in 1..Len(s) }

RECURSIVE Join(_)
Join(s) == IF s = <<>> THEN "" ELSE Head(s) \o Join(Tail(s))

\* code points of the characters that occur in part names and prefixes
Digits == << "0", "1", "2", "3", "4", "5", "6", "7", "8", "9" >>
Upper  == << "A", "B", "C", "D", "E", "F", "G", "H", "I", "J", "K", "L", "M",
             "N", "O", "P", "Q", "R", "S", "T", "U", "V", "W", "X", "Y", "Z" >>
Lower  == << "a", "b", "c", "d", "e", "f", "g", "h", "i", "j", "k", "l", "m",
             "n", "o", "p", "q", "r", "s", "t", "u", "v", "w", "x", "y", "z" >>

Ord == ( " " :> 32 ) @@ ( "+" :> 43 ) @@ ( "-" :> 45 ) @@ ( "." :> 46 ) @@
       ( "_" :> 95 ) @@
       [ c \in Range(Digits) |-> 47 + (CHOOSE n \in 1..10 : Digits[n] = c) ] @@
       [ c \in Range(Upper)  |-> 64 + (CHOOSE n \in 1..26 : Upper[n] = c) ] @@
       [ c \in Range(Lower)  |-> 96 + (CHOOSE n \in 1..26 : Lower[n] = c) ]

\* Python's str < str: lexicographic by code point, a proper prefix is smaller
RECURSIVE StrLess(_, _)
StrLess(a, b) ==
    IF b = <<>> THEN FALSE
    ELSE IF a = <<>> THEN TRUE
    ELSE IF Head(a) # Head(b) THEN Ord[Head(a)] < Ord[Head(b)]
    ELSE StrLess(Tail(a), Tail(b))

\* the characters str.strip() removes that a cell can hold
Whitespace == { " ", "\t", "\r", "\f" }

RECURSIVE LStrip(_)
LStrip(s) == IF s # <<>> /\ Head(s) \in Whitespace THEN LStrip(Tail(s)) ELSE s

RECURSIVE RStrip(_)
RStrip(s) ==
    IF s # <<>> /\ s[Len(s)] \in Whitespace
    THEN RStrip(SubSeq(s, 1, Len(s) - 1))
    ELSE s

\* str.strip()
Strip(s) == RStrip(LStrip(s))

\* str.startswith(p)
StartsWith(s, p) == Len(s) >= Len(p) /\ SubSeq(s, 1, Len(p)) = p

\* '.' in s
HasDot(s) == \E n \in 1..Len(s) : s[n] = "."

\* s.split('.')[0]
RECURSIVE BeforeDot(_)
BeforeDot(s) ==
    IF s = <<>> \/ Head(s) = "." THEN <<>> ELSE <<Head(s)>> \o BeforeDot(Tail(s))

DigitVal == ( "0" :> 0 ) @@ ( "1" :> 1 ) @@ ( "2" :> 2 ) @@ ( "3" :> 3 ) @@
            ( "4" :> 4 ) @@ ( "5" :> 5 ) @@ ( "6" :> 6 ) @@ ( "7" :> 7 ) @@
            ( "8" :> 8 ) @@ ( "9" :> 9 )

IsDigit(c) == c \in DOMAIN DigitVal

\* the digits part of an int() literal: digits, single underscores between them
IsDigits(d) ==
    /\ d # <<>>
    /\ \A n \in 1..Len(d) : IsDigit(d[n]) \/ d[n] = "_"
    /\ IsDigit(d[1]) /\ IsDigit(d[Len(d)])
    /\ \A n \in 1..(Len(d) - 1) : ~(d[n] = "_" /\ d[n + 1] = "_")

RECURSIVE DigitsValue(_, _)
DigitsValue(d, acc) ==
    IF d = <<>> THEN acc
    ELSE IF Head(d) = "_" THEN DigitsValue(Tail(d), acc)
    ELSE DigitsValue(Tail(d), 10 * acc + DigitVal[Head(d)])

\* int(s): [ok |-> FALSE] stands for ValueError
ParseInt(s) ==
    LET t    == Strip(s)
        neg  == t # <<>> /\ Head(t) = "-"
        sign == t # <<>> /\ Head(t) \in { "+", "-" }
        d    == IF sign THEN Tail(t) ELSE t
    IN  IF IsDigits(d)
        THEN [ok |-> TRUE,
              value |-> IF neg THEN 0 - DigitsValue(d, 0) ELSE DigitsValue(d, 0)]
        ELSE [ok |-> FALSE, value |-> 0]

-----------------------------------------------------------------------------
(* The fixed tables of import_spreadsheet_parts.py *)

CATEGORY_MAP ==
    ( <<"Daedalus", "Pistol">> :> 2 ) @@
    ( <<"Jakobs", "Pistol">> :> 3 ) @@
    ( <<"Tediore", "Pistol">> :> 4 ) @@
    ( <<"Torgue", "Pistol">> :> 5 ) @@
    ( <<"Order", "Pistol">> :> 6 ) @@
    ( <<"Vladof", "Pistol">> :> 7 ) @@
    ( <<"Daedalus", "Shotgun">> :> 8 ) @@
    ( <<"Jakobs", "Shotgun">> :> 9 ) @@
    ( <<"Tediore", "Shotgun">> :> 10 ) @@
    ( <<"Torgue", "Shotgun">> :> 11 ) @@
    ( <<"Bor", "Shotgun">> :> 12 ) @@
    ( <<"Ripper", "Shotgun">> :> 12 ) @@
    ( <<"Maliwan", "Shotgun">> :> 19 ) @@
    ( <<"Daedalus", "Assault Rifle">> :> 13 ) @@
    ( <<"Jakobs", "Assault Rifle">> :> 14 ) @@
    ( <<"Tediore", "Assault Rifle">> :> 15 ) @@
    ( <<"Torgue", "Assault Rifle">> :> 16 ) @@
    ( <<"Vladof", "Assault Rifle">> :> 17 ) @@
    ( <<"Order", "Assault Rifle">> :> 18 ) @@
    ( <<"Daedalus", "SMG">> :> 20 ) @@
    ( <<"Bor", "SMG">> :> 21 ) @@
    ( <<"Ripper", "SMG">> :> 21 ) @@
    ( <<"Vladof", "SMG">> :> 22 ) @@
    ( <<"Maliwan", "SMG">> :> 23 ) @@
    ( <<"Bor", "Sniper">> :> 25 ) @@
    ( <<"Ripper", "Sniper">> :> 25 ) @@
    ( <<"Jakobs", "Sniper">> :> 26 ) @@
    ( <<"Vladof", "Sniper">> :> 27 ) @@
    ( <<"Order", "Sniper">> :> 28 ) @@
    ( <<"Maliwan", "Sniper">> :> 29 ) @@
    ( <<"Vladof", "Heavy">> :> 244 ) @@
    ( <<"Torgue", "Heavy">> :> 245 ) @@
    ( <<"Bor", "Heavy">> :> 246 ) @@
    ( <<"Ripper", "Heavy">> :> 246 ) @@
    ( <<"Maliwan", "Heavy">> :> 247 )

CATEGORY_NAMES ==
    ( 2 :> "Daedalus Pistol" ) @@ ( 3 :> "Jakobs Pistol" ) @@
    ( 4 :> "Tediore Pistol" ) @@ ( 5 :> "Torgue Pistol" ) @@
    ( 6 :> "Order Pistol" ) @@ ( 7 :> "Vladof Pistol" ) @@
    ( 8 :> "Daedalus Shotgun" ) @@ ( 9 :> "Jakobs Shotgun" ) @@
    ( 10 :> "Tediore Shotgun" ) @@ ( 11 :> "Torgue Shotgun" ) @@
    ( 12 :> "Bor Shotgun" ) @@ ( 13 :> "Daedalus Assault Rifle" ) @@
    ( 14 :> "Jakobs Assault Rifle" ) @@ ( 15 :> "Tediore Assault Rifle" ) @@
    ( 16 :> "Torgue Assault Rifle" ) @@ ( 17 :> "Vladof Assault Rifle" ) @@
    ( 18 :> "Order Assault Rifle" ) @@ ( 19 :> "Maliwan Shotgun" ) @@
    ( 20 :> "Daedalus SMG" ) @@ ( 21 :> "Bor SMG" ) @@
    ( 22 :> "Vladof SMG" ) @@ ( 23 :> "Maliwan SMG" ) @@
    ( 25 :> "Bor Sniper" ) @@ ( 26 :> "Jakobs Sniper" ) @@
    ( 27 :> "Vladof Sniper" ) @@ ( 28 :> "Order Sniper" ) @@
    ( 29 :> "Maliwan Sniper" ) @@ ( 244 :> "Vladof Heavy" ) @@
    ( 245 :> "Torgue Heavy" ) @@ ( 246 :> "Bor Heavy" ) @@
    ( 247 :> "Maliwan Heavy" )

\* the tuple given to part_string.startswith
PART_PREFIXES ==
    { <<"D", "A", "D", "_">>, <<"J", "A", "K", "_">>, <<"T", "E", "D", "_">>,
      <<"T", "O", "R", "_">>, <<"O", "R", "D", "_">>, <<"V", "L", "A", "_">>,
      <<"M", "A", "L", "_">>, <<"B", "O", "R", "_">>, <<"R", "I", "P", "_">>,
      <<"C", "O", "V", "_">>, <<"A", "T", "L", "_">> }

\* the number of skipped entries the report lists
PreviewLimit == 10

-----------------------------------------------------------------------------
(* parse_spreadsheet: one row of the for-loop *)

\* part_string.startswith((...)) of the import parser
HasPartPrefix(part_string) == \E p \in PART_PREFIXES : StartsWith(part_string, p)

\* `not part_string or not part_string.startswith(...)` negated
ImportNameOk(part_string) == part_string # <<>> /\ HasPartPrefix(part_string)

\* CATEGORY_NAMES.get(category, f"Category {category}")
GroupName(category) ==
    IF category \in DOMAIN CATEGORY_NAMES
    THEN CATEGORY_NAMES[category]
    ELSE "Category " \o ToString(category)

\* f"{manufacturer} {weapon_type}: {part_string}"
SkipMessage(manufacturer, weapon_type, part_string) ==
    Join(manufacturer) \o " " \o Join(weapon_type) \o ": " \o Join(part_string)

Dropped == [kind |-> "dropped"]

\* `not manufacturer or manufacturer == 'Manufacturer'` negated
ManufacturerOk(manufacturer) ==
    manufacturer # <<>> /\ Join(manufacturer) # "Manufacturer"

\* variant: the alias rows of the table are not consulted
Known_WithoutRipper(key) == key \in DOMAIN CATEGORY_MAP /\ key[1] # "Ripper"

\* key in CATEGORY_MAP
Known(key) == key \in DOMAIN CATEGORY_MAP

\* variant: "index" is filled from the wrong local
MakePart_IndexFromCategory(category, part_id, part_string, part_type) ==
    [category  |-> category,
     index     |-> category,
     name      |-> part_string,
     group     |-> GroupName(category),
     part_type |-> part_type]

\* lines 153-162: the dict appended to `parts`
MakePart(category, part_id, part_string, part_type) ==
    [category  |-> category,
     index     |-> part_id,
     name      |-> part_string,
     group     |-> GroupName(category),
     part_type |-> part_type]

\* lines 126-162: a row of at least 5 cells met after the header
ImportDataRow(row) ==
    LET manufacturer == Strip(row[1])
        weapon_type  == Strip(row[2])
        parsed       == ParseInt(Strip(row[3]))
        part_type    == Strip(row[4])
        part_string  == Strip(row[5])
        key          == <<Join(manufacturer), Join(weapon_type)>>
    IN  IF ~ManufacturerOk(manufacturer) THEN Dropped
        ELSE IF ~parsed.ok THEN Dropped
        ELSE IF ~ImportNameOk(part_string) THEN Dropped
        ELSE IF ~Known(key)
        THEN [kind |-> "skipped",
              message |-> SkipMessage(manufacturer, weapon_type, part_string)]
        ELSE [kind |-> "record",
              part |-> MakePart(CATEGORY_MAP[key], parsed.value,
                                part_string, part_type)]

\* lines 111-124: what one iteration of the loop does with `row`
ImportRow(row, seen) ==
    IF row = <<>> \/ row[1] = <<>> THEN Dropped
    ELSE IF Join(row[1]) = "Manufacturer" THEN [kind |-> "header"]
    ELSE IF ~seen THEN Dropped
    ELSE IF Len(row) < 5 THEN Dropped
    ELSE ImportDataRow(row)

\* variant: no slice
Preview_Whole(s) == s

\* skipped[:10]
Preview(s) == SubSeq(s, 1, IF Len(s) < PreviewLimit THEN Len(s) ELSE PreviewLimit)

-----------------------------------------------------------------------------
(* load_spreadsheet_parts: one row of the for-loop *)

\* variant: only the emptiness test
XrefNameOk_NoDotCheck(part_string) == part_string # <<>>

\* `not part_string or '.' not in part_string` negated
XrefNameOk(part_string) == part_string # <<>> /\ HasDot(part_string)

\* lines 36-57: a row of at least 5 cells met after the header
XrefDataRow(row) ==
    LET manufacturer == Strip(row[1])
        weapon_type  == Strip(row[2])
        parsed       == ParseInt(Strip(row[3]))
        part_type    == Strip(row[4])
        part_string  == Strip(row[5])
    IN  IF ~parsed.ok THEN Dropped
        ELSE IF ~XrefNameOk(part_string) THEN Dropped
        ELSE [kind |-> "record",
              prefix |-> BeforeDot(part_string),
              part |-> [id           |-> parsed.value,
                        manufacturer |-> manufacturer,
                        weapon_type  |-> weapon_type,
                        part_type    |-> part_type,
                        name         |-> part_string]]

\* lines 28-34
XrefRow(row, seen) ==
    IF row = <<>> \/ row[1] = <<>> THEN Dropped
    ELSE IF Join(row[1]) = "Manufacturer" THEN [kind |-> "header"]
    ELSE IF ~seen \/ Len(row) < 5 THEN Dropped
    ELSE XrefDataRow(row)

\* parts_by_prefix[prefix].append(part) on a defaultdict(list)
DictAppend(d, key, value) ==
    IF key \in DOMAIN d
    THEN [d EXCEPT ![key] = Append(@, value)]
    ELSE d @@ (key :> <<value>>)

-----------------------------------------------------------------------------
(* merge_with_existing and the tail of main *)

NoFile == [present |-> FALSE]
File(doc) == [present |-> TRUE, doc |-> doc]

\* set(p["category"] for p in new_parts)
NewCategories(ps) == { ps[n].category : n \in 1..Len(ps) }

\* existing.get("parts", [])
ExistingParts(doc) == IF "parts" \in DOMAIN doc THEN doc.parts ELSE <<>>

\* variant: every existing part is appended
KeepExisting_NoFilter(ps, cats) == ps

\* variant: an existing part that occurs again later is appended once
RECURSIVE KeepExisting_Deduplicated(_, _)
KeepExisting_Deduplicated(ps, cats) ==
    IF ps = <<>> THEN <<>>
    ELSE IF Head(ps).category \notin cats /\ Head(ps) \notin Range(Tail(ps))
    THEN <<Head(ps)>> \o KeepExisting_Deduplicated(Tail(ps), cats)
    ELSE KeepExisting_Deduplicated(Tail(ps), cats)

\* variant: the loop stops one existing part early
RECURSIVE KeepExisting_SkipsLast(_, _)
KeepExisting_SkipsLast(ps, cats) ==
    IF Len(ps) <= 1 THEN <<>>
    ELSE IF Head(ps).category \notin cats
    THEN <<Head(ps)>> \o KeepExisting_SkipsLast(Tail(ps), cats)
    ELSE KeepExisting_SkipsLast(Tail(ps), cats)

\* lines 187-189: the existing parts appended to `merged`, in catalog order
RECURSIVE KeepExisting(_, _)
KeepExisting(ps, cats) ==
    IF ps = <<>> THEN <<>>
    ELSE IF Head(ps).category \notin cats
    THEN <<Head(ps)>> \o KeepExisting(Tail(ps), cats)
    ELSE KeepExisting(Tail(ps), cats)

\* merge_with_existing(new_parts, existing_path)
MergeWithExisting(ps, file) ==
    IF ~file.present THEN ps
    ELSE ps \o KeepExisting(ExistingParts(file.doc), NewCategories(ps))

\* (p["category"], p["index"]) < (q["category"], q["index"])
KeyLess(p, q) ==
    \/ p.category < q.category
    \/ p.category = q.category /\ p.index < q.index

\* list.sort is stable: x goes behind every element whose key is not greater
RECURSIVE InsertByKey(_, _)
InsertByKey(s, x) ==
    IF s = <<>> THEN <<x>>
    ELSE IF KeyLess(x, Head(s)) THEN <<x>> \o s
    ELSE <<Head(s)>> \o InsertByKey(Tail(s), x)

RECURSIVE SortFrom(_, _)
SortFrom(done, rest) ==
    IF rest = <<>> THEN done ELSE SortFrom(InsertByKey(done, Head(rest)), Tail(rest))

\* variant: the sort key is the category alone
SortParts_ByCategoryOnly(ps) ==
    LET RECURSIVE Ins(_, _)
        Ins(s, x) == IF s = <<>> THEN <<x>>
                     ELSE IF x.category < Head(s).category THEN <<x>> \o s
                     ELSE <<Head(s)>> \o Ins(Tail(s), x)
        RECURSIVE From(_, _)
        From(done, rest) ==
            IF rest = <<>> THEN done ELSE From(Ins(done, Head(rest)), Tail(rest))
    IN  From(<<>>, ps)

\* parts.sort(key=lambda p: (p["category"], p["index"]))
SortParts(ps) == SortFrom(<<>>, ps)

\* del p["part_type"] when present
StripPartType(p) == [f \in DOMAIN p \ {"part_type"} |-> p[f]]

\* the document main hands to json.dump
OutputDoc(ps) ==
    [version |-> 2,
     source  |-> "Community Spreadsheet (weapons) + memory extraction (other)",
     note    |-> "Weapon indices from spreadsheet - requires in-game verification",
     parts   |-> ps]

-----------------------------------------------------------------------------
(* analyze_patterns *)

\* sorted(S) for a set of strings
RECURSIVE SortedSeq(_)
SortedSeq(S) ==
    IF S = {} THEN <<>>
    ELSE LET m == CHOOSE x \in S : \A y \in S \ {x} : StrLess(x, y)
         IN  <<m>> \o SortedSeq(S \ {m})

\* spreadsheet_prefixes & our_prefixes
Common(ss, ours) == DOMAIN ss \cap DOMAIN ours

\* {p['name'] for p in spreadsheet_parts[prefix]}
SsNames(ss, prefix) == { ss[prefix][n].name : n \in 1..Len(ss[prefix]) }

\* set(our_parts[prefix])
OurNames(ours, prefix) == Range(ours[prefix])

\* ss_parts & our_part_set
MatchedSet(a, b) == a \cap b

\* variant: the local names are not subtracted
MissingSet_NotSubtracted(a, b) == a

\* ss_parts - our_part_set
MissingSet(a, b) == a \ b

\* our_part_set - ss_parts
ExtraSet(a, b) == b \ a

\* the largest number of missing names a block lists one by one
ListLimit == 5

\* variant: the names are listed below the limit only
MissingLines_OffByOne(mi) ==
    IF mi # {} /\ Cardinality(mi) < ListLimit
    THEN [n \in 1..Cardinality(mi) |-> [line |-> "name", name |-> SortedSeq(mi)[n]]]
    ELSE IF mi # {}
    THEN << [line |-> "missing_count", count |-> Cardinality(mi)] >>
    ELSE <<>>

\* lines 117-121
MissingLines(mi) ==
    IF mi # {} /\ Cardinality(mi) <= ListLimit
    THEN [n \in 1..Cardinality(mi) |-> [line |-> "name", name |-> SortedSeq(mi)[n]]]
    ELSE IF mi # {}
    THEN << [line |-> "missing_count", count |-> Cardinality(mi)] >>
    ELSE <<>>

\* lines 114-121: what one iteration prints
BlockLines(prefix, ma, mi, ex) ==
    IF mi # {} \/ ex # {}
    THEN << [line |-> "prefix", prefix |-> prefix],
            [line |-> "counts", matched |-> Cardinality(ma),
             missing |-> Cardinality(mi), extra |-> Cardinality(ex)] >>
         \o MissingLines(mi)
    ELSE <<>>

-----------------------------------------------------------------------------
(* Inputs: rows as csv.reader yields them *)

HeaderRow ==
    << <<"M", "a", "n", "u", "f", "a", "c", "t", "u", "r", "e", "r">>,
       <<"W", "e", "a", "p", "o", "n", " ", "T", "y", "p", "e">>,
       <<"I", "D">>,
       <<"P", "a", "r", "t", " ", "T", "y", "p", "e">>,
       <<"S", "t", "r", "i", "n", "g">> >>

RowJakobs ==
    << <<"J", "a", "k", "o", "b", "s">>,
       <<"P", "i", "s", "t", "o", "l">>,
       <<"5">>,
       <<"B", "a", "r", "r", "e", "l">>,
       <<"J", "A", "K", "_", "B", "a", "r", "r", "e", "l", "_", "0", "1", ".", "j", "s", "o", "n">> >>

RowBorPadded ==
    << <<" ", "B", "o", "r">>,
       <<"S", "h", "o", "t", "g", "u", "n", " ">>,
       <<" ", "7", " ">>,
       <<"G", "r", "i", "p">>,
       <<" ", "B", "O", "R", "_", "S", "G", ".", "g", "r", "i", "p", " ">> >>

RowRipper ==
    << <<"R", "i", "p", "p", "e", "r">>,
       <<"S", "h", "o", "t", "g", "u", "n">>,
       <<"2">>,
       <<"M", "a", "g">>,
       <<"R", "I", "P", "_", "S", "G", ".", "m", "a", "g">> >>

RowBadId ==
    << <<"J", "a", "k", "o", "b", "s">>,
       <<"P", "i", "s", "t", "o", "l">>,
       <<"a", "b", "c">>,
       <<"B", "a", "r", "r", "e", "l">>,
       <<"J", "A", "K", "_", "P", "S", ".", "b", "a", "r", "r", "e", "l">> >>

RowShort ==
    << <<"J", "a", "k", "o", "b", "s">>,
       <<"P", "i", "s", "t", "o", "l">>,
       <<"5">>,
       <<"J", "A", "K", "_", "P", "S", ".", "b", "a", "r", "r", "e", "l">> >>

RowNoDot ==
    << <<"T", "e", "d", "i", "o", "r", "e">>,
       <<"P", "i", "s", "t", "o", "l">>,
       <<"+", "1">>,
       <<"G", "r", "i", "p">>,
       <<"T", "E", "D", "_", "G", "r", "i", "p">> >>

RowNoPrefix ==
    << <<"J", "a", "k", "o", "b", "s">>,
       <<"P", "i", "s", "t", "o", "l">>,
       <<"3">>,
       <<"M", "a", "g">>,
       <<"W", "e", "a", "p", "o", "n", ".", "m", "a", "g">> >>

RowUnknownPair ==
    << <<"A", "t", "l", "a", "s">>,
       <<"P", "i", "s", "t", "o", "l">>,
       <<"1">>,
       <<"B", "a", "r", "r", "e", "l">>,
       <<"A", "T", "L", "_", "P", "S", ".", "b", "a", "r", "r", "e", "l">> >>

RowUnknownBadName ==
    << <<"A", "t", "l", "a", "s">>,
       <<"P", "i", "s", "t", "o", "l">>,
       <<"1">>,
       <<"B", "a", "r", "r", "e", "l">>,
       <<"b", "a", "r", "r", "e", "l">> >>

RowBlankFirst ==
    << <<>>,
       <<"P", "i", "s", "t", "o", "l">>,
       <<"5">>,
       <<"B", "a", "r", "r", "e", "l">>,
       <<"J", "A", "K", "_", "P", "S", ".", "b", "a", "r", "r", "e", "l">> >>

RowSpaceFirst ==
    << <<" ">>,
       <<"P", "i", "s", "t", "o", "l">>,
       <<"1", "_", "0">>,
       <<"G", "r", "i", "p">>,
       <<"J", "A", "K", "_", "P", "S", ".", "g", "r", "i", "p">> >>

RowEmpty == <<>>

RichRows ==
    { HeaderRow, RowJakobs, RowBorPadded, RowRipper, RowBadId, RowShort,
      RowNoDot, RowNoPrefix, RowUnknownPair, RowUnknownBadName, RowEmpty,
      RowBlankFirst, RowSpaceFirst }

\* the longest stream drawn from RichRows
MaxRows == 3

SeqsUpTo(S, n) == UNION { [1..m -> S] : m \in 0..n }

RichStreams == SeqsUpTo(RichRows, MaxRows)

\* streams long enough for the unknown-category report to cut its preview:
\* a header, unresolved rows, at most one resolved row among them
MaxLong == 11

Repeat(row, n) == [j \in 1..n |-> row]

LongStreams ==
    { <<HeaderRow>> \o Repeat(RowUnknownPair, t[1]) \o t[3]
                     \o Repeat(RowUnknownPair, t[2]) :
        t \in { u \in (0..MaxLong) \X (0..MaxLong) \X { <<>>, <<RowJakobs>> } :
                  u[1] + u[2] <= MaxLong } }

AliasManufacturers == { <<"B", "o", "r">>, <<"R", "i", "p", "p", "e", "r">> }

AliasWeaponTypes ==
    { <<"S", "h", "o", "t", "g", "u", "n">>,
      <<"S", "M", "G">>,
      <<"S", "n", "i", "p", "e", "r">>,
      <<"A", "s", "s", "a", "u", "l", "t", " ", "R", "i", "f", "l", "e">>,
      <<"H", "e", "a", "v", "y">>,
      <<"P", "i", "s", "t", "o", "l">> }

AliasRow(m, w) ==
    << m, w, <<"1">>, <<"B", "o", "d", "y">>,
       IF m = <<"B", "o", "r">> THEN <<"B", "O", "R", "_", "X", ".", "b", "o", "d", "y">> ELSE <<"R", "I", "P", "_", "X", ".", "b", "o", "d", "y">> >>

AliasRows == { AliasRow(m, w) : m \in AliasManufacturers, w \in AliasWeaponTypes }

\* a header and two rows that name Bor or Ripper
AliasStreams == { <<HeaderRow, a, b>> : a \in AliasRows, b \in AliasRows }

ImportStreams == RichStreams \cup LongStreams \cup AliasStreams

(* Inputs: the existing catalog parts_database.json *)

ExistingJakobs ==
    [category |-> 3, index |-> 1, group |-> "Jakobs Pistol",
     name |-> <<"J", "A", "K", "_", "P", "S", ".", "o", "l", "d">>]

ExistingTediore ==
    [category |-> 4, index |-> 9, group |-> "Tediore Pistol",
     name |-> <<"T", "E", "D", "_", "P", "S", ".", "o", "l", "d">>,
     part_type |-> <<"G", "r", "i", "p">>]

ExistingTedioreAlt ==
    [category |-> 4, index |-> 9, group |-> "Tediore Pistol",
     name |-> <<"T", "E", "D", "_", "P", "S", ".", "a", "l", "t">>]

ExistingShield ==
    [category |-> 300, index |-> 0, group |-> "Category 300",
     name |-> <<"S", "h", "i", "e", "l", "d", ".", "b", "o", "d", "y">>]

ExistingPool == { ExistingJakobs, ExistingTediore, ExistingTedioreAlt, ExistingShield }

\* the longest existing catalog
MaxExisting == 2

ExistingChoices ==
    { NoFile, File([version |-> 1]) }
    \cup { File([version |-> 1, parts |-> s]) : s \in SeqsUpTo(ExistingPool, MaxExisting) }

\* records parse_spreadsheet produces, as arguments of a direct merge call
NewPool ==
    { ImportRow(r, TRUE).part : r \in { RowJakobs, RowBorPadded, RowRipper, RowNoDot } }

\* the longest new_parts of a direct merge call
MaxNew == 2

NewChoices == SeqsUpTo(NewPool, MaxNew)

(* Inputs: the two dictionaries of a direct analyze_patterns call *)

PrefJAK == <<"J", "A", "K">>
PrefBOR == <<"B", "O", "R">>
PrefATL == <<"A", "T", "L">>

\* JAK_A, JAK_B, ... in this order
JakNames ==
    << <<"J", "A", "K", "_", "A">>,
       <<"J", "A", "K", "_", "B">>,
       <<"J", "A", "K", "_", "C">>,
       <<"J", "A", "K", "_", "D">>,
       <<"J", "A", "K", "_", "E">>,
       <<"J", "A", "K", "_", "F">>,
       <<"J", "A", "K", "_", "G">>,
       <<"J", "A", "K", "_", "H">>,
       <<"J", "A", "K", "_", "I">>,
       <<"J", "A", "K", "_", "J">> >>

\* how many distinct spreadsheet names the prefix JAK can hold
MaxNames == 7

SsRecord(name, id) ==
    [id |-> id, manufacturer |-> <<>>, weapon_type |-> <<>>, part_type |-> <<>>,
     name |-> name]

SsList(names) == [n \in 1..Len(names) |-> SsRecord(names[n], n)]

\* the first n JAK names, and the same with the first row repeated at the end
JakSsLists ==
    { SsList(SubSeq(JakNames, 1, n)) : n \in 0..MaxNames }
    \cup { SsList(Append(SubSeq(JakNames, 1, n), JakNames[1])) : n \in 1..MaxNames }

JakOurNames == { <<"J", "A", "K", "_", "A">>, <<"J", "A", "K", "_", "C">>, <<"J", "A", "K", "_", "Z">> }

JakOurLists ==
    { s \in SeqsUpTo(JakOurNames, 2) : Len(s) < 2 \/ s[1] # s[2] }
    \cup { << <<"J", "A", "K", "_", "A">>, <<"J", "A", "K", "_", "A">> >> }

BorSsLists == { SsList(<< <<"B", "O", "R", "_", "A">> >>), SsList(<< <<"B", "O", "R", "_", "B">>, <<"B", "O", "R", "_", "A">> >>) }

BorOurLists == { << <<"B", "O", "R", "_", "A">> >>, << <<"B", "O", "R", "_", "B">> >> }

AtlSsLists == { SsList(<< <<"A", "T", "L", "_", "A">> >>) }

AtlOurLists == { << <<"A", "T", "L", "_", "A">> >>, << <<"A", "T", "L", "_", "B">> >> }

EmptyDict == <<>>

\* a dictionary holding `prefix` with one of `lists`, or not holding it
WithPrefix(d, prefix, lists) == { d } \cup { d @@ (prefix :> l) : l \in lists }

DictsOver(jak, bor, atl) ==
    UNION { UNION { WithPrefix(d2, PrefATL, atl) : d2 \in WithPrefix(d1, PrefBOR, bor) }
            : d1 \in WithPrefix(EmptyDict, PrefJAK, jak) }

SsChoices == DictsOver(JakSsLists, BorSsLists, AtlSsLists)

OurChoices == DictsOver(JakOurLists, BorOurLists, AtlOurLists)

\* parts dumps read by the cross-reference script after it parsed a spreadsheet
OurDumps ==
    { EmptyDict,
      (<<"J", "A", "K", "_", "P", "S">> :> << <<"J", "A", "K", "_", "P", "S", ".", "g", "r", "i", "p">>, <<"J", "A", "K", "_", "P", "S", ".", "m", "a", "g">> >>),
      (<<"B", "O", "R", "_", "S", "G">> :> << <<"B", "O", "R", "_", "S", "G", ".", "g", "r", "i", "p">> >>) @@ (<<"A", "T", "L", "_", "P", "S">> :> << <<"A", "T", "L", "_", "P", "S", ".", "b", "o", "d", "y">> >>)
        @@ (<<"W", "e", "a", "p", "o", "n">> :> << >>) }

-----------------------------------------------------------------------------
(* State machine *)

NoTotals == [matched |-> 0, missing |-> 0, extra |-> 0]

\* import_spreadsheet_parts.main entered, the CSV file exists
InitImport ==
    /\ tool = "import" /\ pc = "parse"
    /\ rows \in ImportStreams /\ i = 0 /\ header = FALSE
    /\ parts = <<>> /\ skipped = <<>> /\ stderr = <<>> /\ log = <<>>
    /\ parts_by_prefix = EmptyDict /\ our_parts = EmptyDict
    /\ new_parts = <<>> /\ existing = NoFile /\ merged = <<>> /\ remerged = <<>>
    /\ output = NoFile
    /\ order = <<>> /\ k = 0 /\ matched = {} /\ missing = {} /\ extra = {}
    /\ totals = NoTotals /\ stdout = <<>>

\* cross_reference_parts.main entered, both files exist
InitXref ==
    /\ tool = "xref" /\ pc = "load"
    /\ rows \in RichStreams /\ i = 0 /\ header = FALSE
    /\ parts = <<>> /\ skipped = <<>> /\ stderr = <<>> /\ log = <<>>
    /\ parts_by_prefix = EmptyDict /\ our_parts = EmptyDict
    /\ new_parts = <<>> /\ existing = NoFile /\ merged = <<>> /\ remerged = <<>>
    /\ output = NoFile
    /\ order = <<>> /\ k = 0 /\ matched = {} /\ missing = {} /\ extra = {}
    /\ totals = NoTotals /\ stdout = <<>>

Init == InitImport \/ InitXref

\* a direct call merge_with_existing(new_parts, existing_path)
InitMerge ==
    /\ tool = "merge" /\ pc = "call"
    /\ new_parts \in NewChoices /\ existing \in ExistingChoices
    /\ rows = <<>> /\ i = 0 /\ header = FALSE
    /\ parts = <<>> /\ skipped = <<>> /\ stderr = <<>> /\ log = <<>>
    /\ parts_by_prefix = EmptyDict /\ our_parts = EmptyDict
    /\ merged = <<>> /\ remerged = <<>>
    /\ output = NoFile
    /\ order = <<>> /\ k = 0 /\ matched = {} /\ missing = {} /\ extra = {}
    /\ totals = NoTotals /\ stdout = <<>>

\* a direct call analyze_patterns(spreadsheet_parts, our_parts)
InitAnalyze ==
    /\ tool = "analyze" /\ pc = "analyze"
    /\ parts_by_prefix \in SsChoices /\ our_parts \in OurChoices
    /\ rows = <<>> /\ i = 0 /\ header = FALSE
    /\ parts = <<>> /\ skipped = <<>> /\ stderr = <<>> /\ log = <<>>
    /\ new_parts = <<>> /\ existing = NoFile /\ merged = <<>> /\ remerged = <<>>
    /\ output = NoFile
    /\ order = <<>> /\ k = 0 /\ matched = {} /\ missing = {} /\ extra = {}
    /\ totals = NoTotals /\ stdout = <<>>

(* parse_spreadsheet *)

\* one iteration of `for row in reader`
ParseRow ==
    /\ tool = "import" /\ pc = "parse" /\ i < Len(rows)
    /\ LET o == ImportRow(rows[i + 1], header)
       IN  /\ header' = (header \/ o.kind = "header")
           /\ parts' = IF o.kind = "record" THEN Append(parts, o.part) ELSE parts
           /\ skipped' = IF o.kind = "skipped" THEN Append(skipped, o.message)
                         ELSE skipped
           /\ log' = Append(log, o.kind)
    /\ i' = i + 1
    /\ UNCHANGED <<tool, pc, rows, stderr, parts_by_prefix, our_parts, new_parts,
                   existing, merged, remerged, output, order, k, matched,
                   missing, extra, totals, stdout>>

\* lines 164-169: the report printed once the loop is over
SkippedReport(s) ==
    IF s = <<>> THEN <<>>
    ELSE << [line |-> "count", count |-> Len(s)] >>
         \o [n \in 1..Len(Preview(s)) |-> [line |-> "entry", text |-> Preview(s)[n]]]
         \o (IF Len(s) > PreviewLimit
             THEN << [line |-> "more", count |-> Len(s) - PreviewLimit] >>
             ELSE <<>>)

ReportSkipped ==
    /\ tool = "import" /\ pc = "parse" /\ i = Len(rows)
    /\ stderr' = SkippedReport(skipped)
    /\ pc' = "return"
    /\ UNCHANGED <<tool, rows, i, header, parts, skipped, log, parts_by_prefix,
                   our_parts, new_parts, existing, merged, remerged, output,
                   order, k, matched, missing, extra, totals, stdout>>

\* `return parts`: the locals of parse_spreadsheet are gone
ParseReturn ==
    /\ tool = "import" /\ pc = "return"
    /\ rows' = <<>> /\ i' = 0 /\ header' = FALSE /\ skipped' = <<>> /\ log' = <<>>
    /\ pc' = "merge"
    /\ UNCHANGED <<tool, parts, stderr, parts_by_prefix, our_parts, new_parts,
                   existing, merged, remerged, output, order, k, matched,
                   missing, extra, totals, stdout>>

(* main of the import script, lines 207-228 *)

MergeStep ==
    /\ tool = "import" /\ pc = "merge"
    /\ \E file \in ExistingChoices :
          /\ existing' = file
          /\ parts' = IF file.present THEN MergeWithExisting(parts, file) ELSE parts
    /\ new_parts' = parts
    /\ merged' = parts'
    /\ pc' = "sort"
    /\ UNCHANGED <<tool, rows, i, header, skipped, stderr, log, parts_by_prefix,
                   our_parts, remerged, output, order, k, matched, missing,
                   extra, totals, stdout>>

SortStep ==
    /\ tool = "import" /\ pc = "sort"
    /\ parts' = SortParts(parts)
    /\ pc' = "strip"
    /\ UNCHANGED <<tool, rows, i, header, skipped, stderr, log, parts_by_prefix,
                   our_parts, new_parts, existing, merged, remerged, output,
                   order, k, matched, missing, extra, totals, stdout>>

StripStep ==
    /\ tool = "import" /\ pc = "strip"
    /\ parts' = [n \in 1..Len(parts) |-> StripPartType(parts[n])]
    /\ pc' = "write"
    /\ UNCHANGED <<tool, rows, i, header, skipped, stderr, log, parts_by_prefix,
                   our_parts, new_parts, existing, merged, remerged, output,
                   order, k, matched, missing, extra, totals, stdout>>

WriteStep ==
    /\ tool = "import" /\ pc = "write"
    /\ output' = File(OutputDoc(parts))
    /\ pc' = "done"
    /\ UNCHANGED <<tool, rows, i, header, parts, skipped, stderr, log,
                   parts_by_prefix, our_parts, new_parts, existing, merged,
                   remerged, order, k, matched, missing, extra, totals, stdout>>

(* merge_with_existing called directly, then again over its own result *)

CallMerge ==
    /\ tool = "merge" /\ pc = "call"
    /\ merged' = MergeWithExisting(new_parts, existing)
    /\ pc' = "merged"
    /\ UNCHANGED <<tool, rows, i, header, parts, skipped, stderr, log,
                   parts_by_prefix, our_parts, new_parts, existing, remerged,
                   output, order, k, matched, missing, extra, totals, stdout>>

CallMergeAgain ==
    /\ tool = "merge" /\ pc = "merged"
    /\ remerged' = MergeWithExisting(new_parts, File([version |-> 2, parts |-> merged]))
    /\ pc' = "remerged"
    /\ UNCHANGED <<tool, rows, i, header, parts, skipped, stderr, log,
                   parts_by_prefix, our_parts, new_parts, existing, merged,
                   output, order, k, matched, missing, extra, totals, stdout>>

(* load_spreadsheet_parts and load_our_parts *)

LoadRow ==
    /\ tool = "xref" /\ pc = "load" /\ i < Len(rows)
    /\ LET o == XrefRow(rows[i + 1], header)
       IN  /\ header' = (header \/ o.kind = "header")
           /\ parts_by_prefix' = IF o.kind = "record"
                                 THEN DictAppend(parts_by_prefix, o.prefix, o.part)
                                 ELSE parts_by_prefix
           /\ log' = Append(log, o.kind)
    /\ i' = i + 1
    /\ UNCHANGED <<tool, pc, rows, parts, skipped, stderr, our_parts, new_parts,
                   existing, merged, remerged, output, order, k, matched,
                   missing, extra, totals, stdout>>

\* `return dict(parts_by_prefix)`
LoadReturn ==
    /\ tool = "xref" /\ pc = "load" /\ i = Len(rows)
    /\ rows' = <<>> /\ i' = 0 /\ header' = FALSE /\ log' = <<>>
    /\ pc' = "load_ours"
    /\ UNCHANGED <<tool, parts, skipped, stderr, parts_by_prefix, our_parts,
                   new_parts, existing, merged, remerged, output, order, k,
                   matched, missing, extra, totals, stdout>>

LoadOurParts ==
    /\ tool = "xref" /\ pc = "load_ours"
    /\ our_parts' \in OurDumps
    /\ pc' = "analyze"
    /\ UNCHANGED <<tool, rows, i, header, parts, skipped, stderr, log,
                   parts_by_prefix, new_parts, existing, merged, remerged,
                   output, order, k, matched, missing, extra, totals, stdout>>

(* analyze_patterns, lines 76-128; the index table of lines 130-145 only
   prints and is left out *)

AnalyzeBegin ==
    /\ pc = "analyze"
    /\ order' = SortedSeq(Common(parts_by_prefix, our_parts))
    /\ k' = 0
    /\ totals' = NoTotals
    /\ pc' = "loop"
    /\ UNCHANGED <<tool, rows, i, header, parts, skipped, stderr, log,
                   parts_by_prefix, our_parts, new_parts, existing, merged,
                   remerged, output, matched, missing, extra, stdout>>

\* one iteration of `for prefix in sorted(common)`
AnalyzePrefix ==
    /\ pc = "loop" /\ k < Len(order)
    /\ LET prefix == order[k + 1]
           ss     == SsNames(parts_by_prefix, prefix)
           ours   == OurNames(our_parts, prefix)
       IN  /\ matched' = MatchedSet(ss, ours)
           /\ missing' = MissingSet(ss, ours)
           /\ extra' = ExtraSet(ss, ours)
           /\ totals' = [matched |-> totals.matched + Cardinality(matched'),
                         missing |-> totals.missing + Cardinality(missing'),
                         extra   |-> totals.extra + Cardinality(extra')]
           /\ stdout' = stdout \o BlockLines(prefix, matched', missing', extra')
    /\ k' = k + 1
    /\ UNCHANGED <<tool, pc, rows, i, header, parts, skipped, stderr, log,
                   parts_by_prefix, our_parts, new_parts, existing, merged,
                   remerged, output, order>>

\* lines 123-128
AnalyzeSummary ==
    /\ pc = "loop" /\ k = Len(order)
    /\ stdout' = Append(stdout, [line |-> "summary", matched |-> totals.matched,
                                 missing |-> totals.missing, extra |-> totals.extra])
    /\ pc' = "done"
    /\ UNCHANGED <<tool, rows, i, header, parts, skipped, stderr, log,
                   parts_by_prefix, our_parts, new_parts, existing, merged,
                   remerged, output, order, k, matched, missing, extra, totals>>

Next ==
    \/ ParseRow \/ ReportSkipped \/ ParseReturn
    \/ MergeStep \/ SortStep \/ StripStep \/ WriteStep
    \/ LoadRow \/ LoadReturn \/ LoadOurParts
    \/ AnalyzeBegin \/ AnalyzePrefix \/ AnalyzeSummary

Spec == Init /\ [][Next]_vars

NextMerge == CallMerge \/ CallMergeAgain

SpecMerge == InitMerge /\ [][NextMerge]_vars

NextAnalyze == AnalyzeBegin \/ AnalyzePrefix \/ AnalyzeSummary

SpecXref == InitAnalyze /\ [][NextAnalyze]_vars

-----------------------------------------------------------------------------
(* Properties of merge_with_existing *)

CategoriesOf(ps) == { ps[n].category : n \in 1..Len(ps) }

CatalogParts(file) == IF "parts" \in DOMAIN file.doc THEN file.doc.parts ELSE <<>>

Count(s, v) == Cardinality({ n \in 1..Len(s) : s[n] = v })

\* C1: merge category-replacement.  The output of merge_with_existing starts
\* with new_parts itself, and every part behind it (the parts taken from the
\* existing catalog) has a category that does not occur in new_parts; so an
\* output part whose category occurs in new_parts is an element of new_parts.
C1_CategoryReplacement ==
    (tool = "merge" /\ pc = "merged") =>
        /\ Len(merged) >= Len(new_parts)
        /\ SubSeq(merged, 1, Len(new_parts)) = new_parts
        /\ \A n \in (Len(new_parts) + 1)..Len(merged) :
              /\ merged[n].category \notin CategoriesOf(new_parts)
              /\ existing.present /\ merged[n] \in Range(CatalogParts(existing))

\* the existing catalog holds a category the new parts cover and one they do not
C1_Witness ==
    /\ tool = "merge" /\ pc = "merged" /\ existing.present
    /\ CategoriesOf(new_parts) = {3}
    /\ CategoriesOf(CatalogParts(existing)) = {3, 4}
    /\ Len(merged) = Len(new_parts) + 1

\* C2: merge preservation.  With an existing catalog, the output is new_parts
\* followed by the existing parts whose category does not occur in new_parts,
\* each occurrence once and in catalog order (nothing is de-duplicated, the
\* length is |new_parts| plus their number, and with empty new_parts the whole
\* catalog is kept); without an existing catalog the output is new_parts.
C2_Preservation ==
    (tool = "merge" /\ pc = "merged") =>
        IF ~existing.present THEN merged = new_parts
        ELSE LET Retained(q) == q.category \notin CategoriesOf(new_parts)
                 kept == SelectSeq(CatalogParts(existing), Retained)
             IN  /\ merged = new_parts \o kept
                 /\ Len(merged) = Len(new_parts) + Len(kept)
                 /\ new_parts = <<>> => merged = CatalogParts(existing)

\* an existing part that occurs twice is retained twice behind a new part
C2_Witness ==
    /\ tool = "merge" /\ pc = "merged" /\ existing.present
    /\ new_parts # <<>>
    /\ \E q \in Range(CatalogParts(existing)) :
          Count(CatalogParts(existing), q) = 2 /\ Count(merged, q) = 2

Triples(ps) == { <<ps[n].category, ps[n].index, ps[n].name>> : n \in 1..Len(ps) }

\* C3: merge idempotence.  Merging new_parts with the result of a first merge
\* gives the same set of (category, index, name) triples as the first merge.
C3_Idempotent ==
    (tool = "merge" /\ pc = "remerged") => Triples(remerged) = Triples(merged)

\* the first merge replaced one existing part and retained another
C3_Witness ==
    /\ tool = "merge" /\ pc = "remerged" /\ existing.present
    /\ new_parts # <<>>
    /\ Len(new_parts) < Len(merged)
    /\ Len(merged) < Len(new_parts) + Len(CatalogParts(existing))

-----------------------------------------------------------------------------
(* Properties of the import script *)

NonDecreasing(ps) ==
    \A n \in 1..(Len(ps) - 1) :
        \/ ps[n].category < ps[n + 1].category
        \/ ps[n].category = ps[n + 1].category /\ ps[n].index <= ps[n + 1].index

IsPermutation(a, b) ==
    /\ Len(a) = Len(b)
    /\ \A v \in Range(a) \cup Range(b) : Count(a, v) = Count(b, v)

WithoutPartType(ps) ==
    [n \in 1..Len(ps) |-> [f \in DOMAIN ps[n] \ {"part_type"} |-> ps[n][f]]]

\* C4: output ordering.  Once the list is sorted it is non-decreasing in
\* (category, index) and a permutation of the merged list; the parts list
\* written to the output catalog is that list without the part_type field,
\* so it is non-decreasing and a permutation of the merged parts as persisted.
C4_OutputSorted ==
    /\ (tool = "import" /\ pc = "strip") =>
          NonDecreasing(parts) /\ IsPermutation(parts, merged)
    /\ (tool = "import" /\ pc = "done") =>
          /\ output.present
          /\ NonDecreasing(output.doc.parts)
          /\ IsPermutation(output.doc.parts, WithoutPartType(merged))

\* a catalog was written from a merged list that had to be reordered
C4_Witness ==
    /\ tool = "import" /\ pc = "done" /\ output.present /\ existing.present
    /\ Len(merged) >= 3
    /\ ~NonDecreasing(merged)
    /\ Len(new_parts) < Len(merged)

Consumed == 1..Len(log)

\* the index in `parts` of the record built from row n
RecordIndex(n) == Cardinality({ m \in 1..n : log[m] = "record" })

RecordsBuilt ==
    IF tool = "import" THEN Len(parts)
    ELSE LET RECURSIVE Total(_)
             Total(P) == IF P = {} THEN 0
                         ELSE LET q == CHOOSE q \in P : TRUE
                              IN  Len(parts_by_prefix[q]) + Total(P \ {q})
         IN  Total(DOMAIN parts_by_prefix)

IsHeaderRow(row) == row # <<>> /\ Join(row[1]) = "Manufacturer"

HeaderBefore(n) == \E m \in 1..(n - 1) : IsHeaderRow(rows[m])

Parsing == tool \in {"import", "xref"} /\ pc \in {"parse", "return", "load"}

C6_ResolvedRecord ==
    (tool = "import" /\ pc \in {"parse", "return"}) =>
        /\ Len(log) = i
        /\ \A n \in Consumed :
              log[n] = "record" =>
                  LET part == parts[RecordIndex(n)]
                      key  == <<Join(Strip(rows[n][1])), Join(Strip(rows[n][2]))>>
                  IN  /\ key \in DOMAIN CATEGORY_MAP
                      /\ part.category = CATEGORY_MAP[key]
                      /\ ParseInt(Strip(rows[n][3])).ok
                      /\ part.index = ParseInt(Strip(rows[n][3])).value
                      /\ part.name = Strip(rows[n][5])
                      /\ part.group =
                            IF part.category \in DOMAIN CATEGORY_NAMES
                            THEN CATEGORY_NAMES[part.category]
                            ELSE "Category " \o ToString(part.category)
        /\ \A n \in Consumed :
              (Len(rows[n]) >= 3 /\ ~ParseInt(rows[n][3]).ok) => log[n] # "record"
        /\ (rows = <<HeaderRow, RowJakobs>> /\ i = 2) =>
              /\ Len(parts) = 1
              /\ parts[1].category = 3
              /\ parts[1].index = 5
              /\ Join(parts[1].name) = "JAK_Barrel_01.json"
              /\ parts[1].group = "Jakobs Pistol"
        /\ \A n \in Consumed :
              rows[n] = RowBorPadded /\ log[n] = "record" =>
                  /\ parts[RecordIndex(n)].index = 7
                  /\ Join(parts[RecordIndex(n)].name) = "BOR_SG.grip"
                  /\ parts[RecordIndex(n)].group = "Bor Shotgun"

\* the scenario row was parsed behind a header
C6_Witness ==
    /\ tool = "import" /\ pc = "parse"
    /\ rows = <<HeaderRow, RowJakobs>> /\ i = 2 /\ Len(parts) = 1

Resolved(n) == log[n] \in {"record", "skipped"}

\* C7: alias resolution.  Of two rows that reach the category lookup, one
\* naming Bor and one naming Ripper with the same weapon type, either both
\* are resolved, and then to the same category (12 for Shotgun), or neither
\* is: the table covers the same weapon types for both names.
C7_AliasResolution ==
    (tool = "import" /\ pc \in {"parse", "return"}) =>
        \A a, b \in Consumed :
            ( /\ Resolved(a) /\ Resolved(b)
              /\ Join(Strip(rows[a][1])) = "Bor"
              /\ Join(Strip(rows[b][1])) = "Ripper"
              /\ Strip(rows[a][2]) = Strip(rows[b][2]) )
            => /\ log[a] = log[b]
               /\ log[a] = "record" =>
                     /\ parts[RecordIndex(a)].category = parts[RecordIndex(b)].category
                     /\ Join(Strip(rows[a][2])) = "Shotgun" =>
                           parts[RecordIndex(a)].category = 12

\* a Bor row and a Ripper row of the same weapon type were both resolved
C7_Witness ==
    /\ tool = "import" /\ pc = "parse"
    /\ \E a, b \in Consumed :
          /\ log[a] = "record" /\ log[b] = "record"
          /\ Join(Strip(rows[a][1])) = "Bor"
          /\ Join(Strip(rows[b][1])) = "Ripper"
          /\ Join(Strip(rows[a][2])) = "Heavy"
          /\ Join(Strip(rows[b][2])) = "Heavy"

FormatOkAsClaimed(n) ==
    /\ HeaderBefore(n)
    /\ ~IsHeaderRow(rows[n])
    /\ Len(rows[n]) >= 5
    /\ ParseInt(rows[n][3]).ok
    /\ \E q \in PART_PREFIXES : SubSeq(Strip(rows[n][5]), 1, Len(q)) = q

ManufacturerGiven(n) ==
    /\ Strip(rows[n][1]) # <<>>
    /\ Join(Strip(rows[n][1])) # "Manufacturer"

PairKnown(n) ==
    <<Join(Strip(rows[n][1])), Join(Strip(rows[n][2]))>> \in DOMAIN CATEGORY_MAP

DiagnosticOf(n) ==
    Join(Strip(rows[n][1])) \o " " \o Join(Strip(rows[n][2])) \o ": "
        \o Join(Strip(rows[n][5]))

SkippedRows == { n \in Consumed : log[n] = "skipped" }

\* the j-th diagnostic comes from the j-th skipped row
DiagnosticsInRowOrder ==
    /\ Len(skipped) = Cardinality(SkippedRows)
    /\ \A n \in SkippedRows :
          skipped[Cardinality({ m \in SkippedRows : m <= n })] = DiagnosticOf(n)

EntryLines == SelectSeq(stderr, LAMBDA l : l.line = "entry")

PreviewIsFirstTen ==
    pc = "return" =>
        /\ Len(EntryLines) = (IF Len(skipped) <= 10 THEN Len(skipped) ELSE 10)
        /\ \A j \in 1..Len(EntryLines) : EntryLines[j].text = skipped[j]

\* the statement of C9 as claimed: the format checks are the header, the five
\* cells, the integer id and the prefix of the part name
C9_Original ==
    (tool = "import" /\ pc \in {"parse", "return"}) =>
        /\ \A n \in Consumed :
              log[n] = "skipped" <=> (FormatOkAsClaimed(n) /\ ~PairKnown(n))
        /\ \A n \in Consumed :
              log[n] = "record" <=> (FormatOkAsClaimed(n) /\ PairKnown(n))
        /\ Len(parts) = Cardinality({ n \in Consumed : log[n] = "record" })
        /\ DiagnosticsInRowOrder
        /\ PreviewIsFirstTen

\* C9 (amended): a row is added to the diagnostic list exactly when it passes
\* every format check (after a header, at least 5 cells, a trimmed
\* manufacturer cell that is neither empty nor 'Manufacturer', integer id,
\* part name with an allowed prefix) and its pair is absent from the table;
\* such a row builds no record, the rows that pass the checks with a known
\* pair still build one wherever they stand, a malformed row adds no
\* diagnostic, diagnostics keep row order, and the report lists the first 10.
C9_UnresolvedDiagnostics ==
    (tool = "import" /\ pc \in {"parse", "return"}) =>
        /\ \A n \in Consumed :
              log[n] = "skipped" <=>
                  (FormatOkAsClaimed(n) /\ ManufacturerGiven(n) /\ ~PairKnown(n))
        /\ \A n \in Consumed :
              log[n] = "record" <=>
                  (FormatOkAsClaimed(n) /\ ManufacturerGiven(n) /\ PairKnown(n))
        /\ Len(parts) = Cardinality({ n \in Consumed : log[n] = "record" })
        /\ DiagnosticsInRowOrder
        /\ PreviewIsFirstTen

\* more than 10 rows were unresolved, a resolved row stood between them
C9_Witness ==
    /\ tool = "import" /\ pc = "return"
    /\ Len(skipped) > 10
    /\ Len(parts) > 0
    /\ Len(EntryLines) = 10

-----------------------------------------------------------------------------
(* Properties of analyze_patterns *)

SheetNames(prefix) ==
    { parts_by_prefix[prefix][n].name : n \in 1..Len(parts_by_prefix[prefix]) }

LocalNames(prefix) == { our_parts[prefix][n] : n \in 1..Len(our_parts[prefix]) }

CommonPrefixes == DOMAIN parts_by_prefix \cap DOMAIN our_parts

RECURSIVE SumOver(_, _)
SumOver(P, f) ==
    IF P = {} THEN 0
    ELSE LET q == CHOOSE q \in P : TRUE IN f[q] + SumOver(P \ {q}, f)

\* C8: cross-reference partition.  For the prefix an iteration handled,
\* matched, missing and extra are pairwise disjoint, matched + missing is the
\* number of distinct spreadsheet names and matched + extra the number of
\* distinct local names under it; the totals are the sums of these counts
\* over all common prefixes; {JAK_A, JAK_B} against {JAK_A, JAK_C} gives
\* matched {JAK_A}, missing {JAK_B}, extra {JAK_C}.
C8_Partition ==
    /\ (pc = "loop" /\ k >= 1) =>
          LET prefix == order[k]
          IN  /\ prefix \in CommonPrefixes
              /\ matched \cap missing = {}
              /\ matched \cap extra = {}
              /\ missing \cap extra = {}
              /\ Cardinality(matched) + Cardinality(missing)
                    = Cardinality(SheetNames(prefix))
              /\ Cardinality(matched) + Cardinality(extra)
                    = Cardinality(LocalNames(prefix))
              /\ matched \cup missing = SheetNames(prefix)
              /\ matched \cup extra = LocalNames(prefix)
              /\ ( /\ SheetNames(prefix) = { <<"J", "A", "K", "_", "A">>, <<"J", "A", "K", "_", "B">> }
                    /\ LocalNames(prefix) = { <<"J", "A", "K", "_", "A">>, <<"J", "A", "K", "_", "C">> } )
                 => /\ matched = { <<"J", "A", "K", "_", "A">> }
                    /\ missing = { <<"J", "A", "K", "_", "B">> }
                    /\ extra = { <<"J", "A", "K", "_", "C">> }
    /\ pc = "done" =>
          /\ stdout[Len(stdout)] =
                [line |-> "summary", matched |-> totals.matched,
                 missing |-> totals.missing, extra |-> totals.extra]
          /\ totals.matched = SumOver(CommonPrefixes,
                [q \in CommonPrefixes |->
                    Cardinality(SheetNames(q) \cap LocalNames(q))])
          /\ totals.missing = SumOver(CommonPrefixes,
                [q \in CommonPrefixes |->
                    Cardinality(SheetNames(q) \ LocalNames(q))])
          /\ totals.extra = SumOver(CommonPrefixes,
                [q \in CommonPrefixes |->
                    Cardinality(LocalNames(q) \ SheetNames(q))])

\* the scenario: the iteration for JAK has just run, another prefix ran before
C8_Witness ==
    /\ tool = "analyze" /\ pc = "loop" /\ k >= 2
    /\ order[k] = PrefJAK
    /\ matched = { <<"J", "A", "K", "_", "A">> }
    /\ missing = { <<"J", "A", "K", "_", "B">> }
    /\ extra = { <<"J", "A", "K", "_", "C">> }

PrefixLines == { n \in 1..Len(stdout) : stdout[n].line = "prefix" }

\* the lines of the block that starts at line n, its first two lines left out
DetailOf(n) ==
    LET later == { m \in PrefixLines : m > n } \cup
                 { m \in 1..Len(stdout) : stdout[m].line = "summary" } \cup
                 { Len(stdout) + 1 }
        stop  == CHOOSE m \in later : \A o \in later : m <= o
    IN  SubSeq(stdout, n + 2, stop - 1)

Handled == { order[n] : n \in 1..k }

\* C10: reporter output bounding.  The prefixes are handled in sorted order;
\* a handled prefix has a detail block exactly when its missing or extra set
\* is not empty; a block lists every missing name, in sorted order, when there
\* are 1 to 5 of them, and only their number when there are more than 5.
C10_BoundedReport ==
    (pc \in {"loop", "done"}) =>
        /\ Range(order) = CommonPrefixes
        /\ \A a, b \in 1..Len(order) : a < b => StrLess(order[a], order[b])
        /\ \A a, b \in PrefixLines :
              a < b => StrLess(stdout[a].prefix, stdout[b].prefix)
        /\ \A q \in Handled :
              (\E n \in PrefixLines : stdout[n].prefix = q)
                  <=> (SheetNames(q) \ LocalNames(q) # {}
                       \/ LocalNames(q) \ SheetNames(q) # {})
        /\ \A n \in PrefixLines :
              LET q      == stdout[n].prefix
                  gone   == SheetNames(q) \ LocalNames(q)
                  detail == DetailOf(n)
              IN  /\ q \in Handled
                  /\ stdout[n + 1].line = "counts"
                  /\ stdout[n + 1].missing = Cardinality(gone)
                  /\ Cardinality(gone) = 0 => detail = <<>>
                  /\ (1 <= Cardinality(gone) /\ Cardinality(gone) <= 5) =>
                        /\ Len(detail) = Cardinality(gone)
                        /\ \A j \in 1..Len(detail) : detail[j].line = "name"
                        /\ { detail[j].name : j \in 1..Len(detail) } = gone
                        /\ \A a, b \in 1..Len(detail) :
                              a < b => StrLess(detail[a].name, detail[b].name)
                  /\ Cardinality(gone) > 5 =>
                        detail = << [line |-> "missing_count",
                                     count |-> Cardinality(gone)] >>

\* the report holds a block that lists its one missing name and a block that only counts
C10_Witness ==
    /\ tool = "analyze" /\ pc = "done"
    /\ Len(order) = 3
    /\ Cardinality(PrefixLines) = 2
    /\ \E n \in PrefixLines : stdout[n + 1].missing > 5
    /\ \E n \in PrefixLines : stdout[n + 1].missing = 1 /\ Len(DetailOf(n)) = 1

====
